---- MODULE Spec2Model ----
(***************************************************************************)
(* A model of mapnik-print: lib/renderer.hpp (renderer backends, the       *)
(* command geometry, the renderer wrapper) and src/mapnik_print.cpp (the   *)
(* command line front end).                                                *)
(*                                                                         *)
(* The variable unit selects which entry point of the program a behaviour  *)
(* exercises; the entry points share no state in the source.               *)
(***************************************************************************)
EXTENDS Integers, Sequences, FiniteSets, TLC

VARIABLES
    unit,          \* the entry point this behaviour exercises
    merc,          \* the last evaluation of scale_merc, and the one before
    mercPrev,
    cmd,           \* the last command constructed, and the one before
    cmdPrev,
    rend,          \* a renderer<Renderer>: its fields ren, output_dir, map
    handed,        \* what renderer::render last passed to Renderer::render
    files,         \* the file system: path -> content
    openable,      \* the paths that can be opened for writing
    saved,         \* the last call of vector_renderer_base::save
    ss,            \* cairo_vector_renderer::render: its std::ostringstream
    calls,         \* the write callbacks cairo issued, with their results
    cairoPc,       \* the position of cairo_vector_renderer::render
    image,         \* the string cairo_vector_renderer::render returned
    argv,          \* main: the command line, and the build's MAPNIK_LOG
    pc,            \* main: the next statement
    vm,            \* main: the po::variables_map
    lib,           \* the rendering library: fonts, datasources, severity
    output_dir,    \* main: the local output_dir
    defaults,      \* main: the local config defaults
    renderers,     \* the renderers main created
    run_styles,    \* the styles main handed to a run
    out,           \* what main wrote to std::clog and std::cerr
    exit,          \* how the process of main ended
    trace          \* main's effects, in order

mercVars == <<merc, mercPrev>>
cmdVars == <<cmd, cmdPrev>>
rendVars == <<rend, handed>>
saveVars == <<files, openable, saved>>
cairoVars == <<ss, calls, cairoPc, image>>
mainVars == <<argv, pc, vm, lib, output_dir, defaults, renderers, run_styles,
              out, exit, trace>>

vars == <<unit, mercVars, cmdVars, rendVars, saveVars, cairoVars, mainVars>>

None == [none |-> TRUE]

(***************************************************************************)
(* Bounds of the model.                                                    *)
(***************************************************************************)
\* scale_merc is applied to zoom in 0..MaxZoom (past the width of unsigned)
MaxZoom == 34
\* command is constructed with zoom in 0..MaxCmdZoom
MaxCmdZoom == 2
\* images and files hold at most MaxImageLen bytes
MaxImageLen == 2
\* a write callback passes at most MaxChunkLen bytes
MaxChunkLen == 2
\* cairo issues at most MaxWrites write callbacks in one render
MaxWrites == 2

(***************************************************************************)
(* double values.  A double is modelled exactly, as                        *)
(*     (n / d) * 2^(-e) * EARTH_CIRCUMFERENCE^c                            *)
(* with n/d in lowest terms, n and d odd, d > 0.  d = 0 is an infinity     *)
(* (n = 1 or -1) or a NaN (n = 0), as IEEE division by zero gives.         *)
(* Rounding is not modelled.                                               *)
(***************************************************************************)
Abs(i) == IF i < 0 THEN -i ELSE i

Sign(i) == IF i < 0 THEN -1 ELSE IF i = 0 THEN 0 ELSE 1

RECURSIVE Gcd(_, _)
Gcd(a, b) == IF b = 0 THEN a ELSE Gcd(b, a % b)

RECURSIVE Pow2(_)
Pow2(k) == IF k = 0 THEN 1 ELSE 2 * Pow2(k - 1)

\* the number of factors 2 of i > 0
RECURSIVE Twos(_)
Twos(i) == IF i % 2 = 1 THEN 0 ELSE 1 + Twos(i \div 2)

Norm(n, d, e, c) ==
    IF d = 0 THEN [n |-> Sign(n), d |-> 0, e |-> 0, c |-> 0]
    ELSE IF n = 0 THEN [n |-> 0, d |-> 1, e |-> 0, c |-> 0]
    ELSE LET s  == Sign(n) * Sign(d)
             g  == Gcd(Abs(n), Abs(d))
             n1 == Abs(n) \div g
             d1 == Abs(d) \div g
             tn == Twos(n1)
             td == Twos(d1)
         IN  [n |-> s * (n1 \div Pow2(tn)), d |-> d1 \div Pow2(td),
              e |-> e + td - tn, c |-> c]

Rat(n, d) == Norm(n, d, 0, 0)

Num(i) == Norm(i, 1, 0, 0)

Mul(a, b) ==
    IF a.d = 0 \/ b.d = 0 THEN Norm(a.n * b.n, 0, 0, 0)
    ELSE IF a.n = 0 \/ b.n = 0 THEN Num(0)
    ELSE LET g1 == Gcd(Abs(a.n), b.d)
             g2 == Gcd(Abs(b.n), a.d)
         IN  Norm((a.n \div g1) * (b.n \div g2), (a.d \div g2) * (b.d \div g1),
                  a.e + b.e, a.c + b.c)

Inv(a) ==
    IF a.d = 0 THEN Num(0)
    ELSE IF a.n = 0 THEN Norm(1, 0, 0, 0)
    ELSE Norm(Sign(a.n) * a.d, Abs(a.n), -a.e, -a.c)

Div(a, b) ==
    IF a.d = 0 /\ b.d = 0 THEN Norm(0, 0, 0, 0)
    ELSE IF a.n = 0 /\ b.n = 0 /\ a.d # 0 /\ b.d # 0 THEN Norm(0, 0, 0, 0)
    ELSE IF b.n = 0 /\ b.d # 0 THEN Norm(a.n, 0, 0, 0)
    ELSE Mul(a, Inv(b))

\* sums are taken of finite values of the same dimension only
Add(a, b) ==
    IF a.n = 0 THEN b
    ELSE IF b.n = 0 THEN a
    ELSE LET E == IF a.e > b.e THEN a.e ELSE b.e
         IN  Norm(a.n * Pow2(E - a.e) * b.d + b.n * Pow2(E - b.e) * a.d,
                  a.d * b.d, E, a.c)

Neg(a) == [a EXCEPT !.n = -a.n]

Sub(a, b) == Add(a, Neg(b))

Positive(a) == a.n > 0

Finite(a) == a.d # 0

(***************************************************************************)
(* lib/renderer.hpp: scale_merc                                            *)
(***************************************************************************)
\* mapnik::EARTH_CIRCUMFERENCE, kept symbolic
EARTH_CIRCUMFERENCE == Norm(1, 1, 0, 1)

\* the width of unsigned
UnsignedBits == 32

\* what a shift by zoom >= UnsignedBits, which is undefined, can produce:
\* the count taken modulo the width (x86, AArch64), or 0 (ARM)
ShiftOutcomes == {"masked", "zero"}

\* 1u << zoom: a power of two [exp], or 0 [zero]
ShiftLeft1(zoom, ub) ==
    IF zoom < UnsignedBits THEN [zero |-> FALSE, exp |-> zoom]
    ELSE IF ub = "masked" THEN [zero |-> FALSE, exp |-> zoom % UnsignedBits]
    ELSE [zero |-> TRUE, exp |-> 0]

\* unsigned -> double
ToDouble(u) == IF u.zero THEN Num(0) ELSE Norm(1, 1, -u.exp, 0)

scale_merc(zoom, ub) ==
    Div(Div(EARTH_CIRCUMFERENCE, ToDouble(ShiftLeft1(zoom, ub))), Num(256))

(***************************************************************************)
(* lib/renderer.hpp: map_size, command                                     *)
(***************************************************************************)
meters_to_inches(meters) == Div(meters, Rat(254, 10000))

map_size_meters_to_inches(s) ==
    [width |-> meters_to_inches(s.width), height |-> meters_to_inches(s.height)]

map_size_times(s, factor) ==
    [width |-> Mul(s.width, factor), height |-> Mul(s.height, factor)]

points_per_inch == 72

\* mapnik::box2d<double>(minx, miny, maxx, maxy)
box2d(x0, y0, x1, y1) == [minx |-> x0, miny |-> y0, maxx |-> x1, maxy |-> y1]

box_width(b) == Sub(b.maxx, b.minx)

box_height(b) == Sub(b.maxy, b.miny)

Half(a) == Mul(a, Rat(1, 2))

box_center(b) == [x |-> Half(Add(b.minx, b.maxx)), y |-> Half(Add(b.miny, b.maxy))]

\* box2d::operator*=: scales the box about its center
box_scale(b, t) ==
    LET c  == box_center(b)
        sx == Mul(Half(box_width(b)), t)
        sy == Mul(Half(box_height(b)), t)
    IN  box2d(Sub(c.x, sx), Sub(c.y, sy), Add(c.x, sx), Add(c.y, sy))

\* box2d::re_center: shifts the box so that its center is (cx, cy)
box_re_center(b, cx, cy) ==
    LET dx == Sub(cx, box_center(b).x)
        dy == Sub(cy, box_center(b).y)
    IN  box2d(Add(b.minx, dx), Add(b.miny, dy), Add(b.maxx, dx), Add(b.maxy, dy))

\* mapnik::scale_denominator(scale, false): scale / 0.00028
scale_denominator(scale) == Div(scale, Rat(28, 100000))

\* The latitude, in degrees, of a projected y (mapnik::projection::inverse
\* for the spherical Mercator projection), on the points of the model.
Latitude(y) ==
    IF y = Num(8399738) THEN 60
    ELSE IF y = Num(-8399738) THEN -60
    ELSE 0

\* std::cos(lat * mapnik::D2R)
CosDeg(lat) == IF lat = 60 \/ lat = -60 THEN Rat(1, 2) ELSE Num(1)

Point(x, y) == [x |-> Num(x), y |-> Num(y)]

\* projected points of the model, at latitude 0 and 60
Points == {Point(0, 0), Point(1000000, 8399738)}

Centers == Points

MapSizes == {[width |-> Rat(1, 5), height |-> Rat(3, 10)],
             [width |-> Rat(2, 5), height |-> Rat(1, 2)]}

ScaleDenoms == {Num(1000), Num(25000)}

Dpis == {Num(96), Num(300)}

\* command::command.  geo is the value of the local geografic_center, which
\* line 206 declares without an initialiser and nothing assigns before
\* proj.inverse reads it.
command_geografic_center(map_center, geo) == geo

\* a scale factor that divides by the width of the map, not of the extent
command_scale_factor_by_size(extent, size_arg, size_member, scale) ==
    Div(scale_denominator(scale),
        scale_denominator(Div(size_member.width, size_arg.width)))

command_scale_factor(extent, size_arg, size_member, scale) ==
    Div(scale_denominator(scale),
        scale_denominator(Div(box_width(extent), size_arg.width)))

command(map_center, scale_denom, size, zoom, dpi, geo, ub) ==
    LET size_member == map_size_times(map_size_meters_to_inches(size),
                                      Num(points_per_inch))
        extent0 == box2d(Num(0), Num(0), size.width, size.height)
        geografic_center == command_geografic_center(map_center, geo)
        projection_scale_factor == CosDeg(Latitude(geografic_center.y))
        extent1 == box_scale(extent0, Mul(scale_denom, projection_scale_factor))
        extent2 == box_re_center(extent1, map_center.x, map_center.y)
        scale == scale_merc(zoom, ub)
    IN  [size |-> size_member,
         extent |-> extent2,
         scale_factor |-> command_scale_factor(extent2, size, size_member, scale),
         dpi |-> dpi,
         \* the arguments and locals of the construction, kept for the record
         arg |-> [map_center |-> map_center, scale_denom |-> scale_denom,
                  size |-> size, zoom |-> zoom, dpi |-> dpi],
         geografic_center |-> geografic_center,
         projection_scale_factor |-> projection_scale_factor,
         scale |-> scale]

\* the constructions of the model, each evaluated once
CommandInputs ==
    [map_center : Centers, scale_denom : ScaleDenoms, size : MapSizes,
     zoom : 0..MaxCmdZoom, dpi : Dpis, geo : Points, ub : ShiftOutcomes]

Commands ==
    {command(i.map_center, i.scale_denom, i.size, i.zoom, i.dpi, i.geo, i.ub) :
        i \in CommandInputs}

(***************************************************************************)
(* lib/renderer.hpp: the renderer backends and renderer<Renderer>          *)
(***************************************************************************)
agg_renderer ==
    [name |-> "agg", ext |-> ".png", support_tiles |-> TRUE,
     image_type |-> "mapnik::image_rgba8"]

cairo_renderer ==
    [name |-> "cairo", ext |-> ".png", support_tiles |-> TRUE,
     image_type |-> "mapnik::image_rgba8"]

cairo_svg_renderer ==
    [name |-> "cairo-svg", ext |-> ".svg", support_tiles |-> FALSE,
     image_type |-> "std::string"]

cairo_ps_renderer ==
    [name |-> "cairo-ps", ext |-> ".ps", support_tiles |-> FALSE,
     image_type |-> "std::string"]

cairo_pdf_renderer ==
    [name |-> "cairo-pdf", ext |-> ".pdf", support_tiles |-> FALSE,
     image_type |-> "std::string"]

\* the alternatives of renderer_type
Backends == {agg_renderer, cairo_renderer, cairo_svg_renderer,
             cairo_ps_renderer, cairo_pdf_renderer}

\* mapnik::box2d<double>(): the extent of a map that was never zoomed
box2d_default == box2d(Num(0), Num(0), Num(-1), Num(-1))

\* the maps a renderer is constructed with
Maps == {[extent |-> box2d_default, width |-> 400, height |-> 400],
         [extent |-> box2d(Num(-200), Num(-250), Num(200), Num(250)),
          width |-> 800, height |-> 1000]}

\* renderer<Renderer>::renderer(map)
renderer(backend, map) == [ren |-> backend, output_dir |-> "", map |-> map]

\* the map renderer::render passes to Renderer::render
render_map(r, c) == r.map

\* renderer<Renderer>::render(cmd): the call ren.render(map, cmd.scale_factor)
renderer_render(r, c) ==
    [backend |-> r.ren.name, map |-> render_map(r, c),
     scale_factor |-> c.scale_factor, cmd |-> c]

(***************************************************************************)
(* lib/renderer.hpp: vector_renderer_base::save                            *)
(***************************************************************************)
Bytes == {"a", "b"}

RECURSIVE StringsUpTo(_)
StringsUpTo(k) ==
    IF k = 0 THEN {<<>>}
    ELSE LET shorter == StringsUpTo(k - 1)
         IN  shorter \cup {Append(t, b) : t \in shorter, b \in Bytes}

Images == StringsUpTo(MaxImageLen)

Paths == {"out/map.svg", "out/map.pdf"}

\* a path that names no file, and a file with its content
NoFile == [exists |-> FALSE, content |-> <<>>]

File(content) == [exists |-> TRUE, content |-> content]

Prefix(t, k) == SubSeq(t, 1, k)

\* what save throws when the stream failed to open
save_error(path) ==
    [type |-> "std::runtime_error",
     what |-> "Cannot open file for writing: " \o path]

\* a save that truncates the file before it finds the stream failed
save_failed_file_truncated(fs, path) == File(<<>>)

\* the file at path after a failed std::ofstream open
save_failed_file(fs, path) == fs[path]

\* vector_renderer_base::save(img, path) on the file system fs.  can_open
\* says whether the std::ofstream opens; written is the number of bytes of
\* img the stream takes (less than Len(img) when the write fails, which
\* save does not look at).
vector_renderer_base_save(fs, img, path, can_open, written) ==
    IF ~can_open
    THEN [files |-> [fs EXCEPT ![path] = save_failed_file(fs, path)],
          opens |-> 1, thrown |-> save_error(path), bytes |-> 0]
    ELSE [files |-> [fs EXCEPT ![path] = File(Prefix(img, written))],
          opens |-> 1, thrown |-> None, bytes |-> written]

(***************************************************************************)
(* lib/renderer.hpp: cairo_vector_renderer                                 *)
(***************************************************************************)
Chunks == StringsUpTo(MaxChunkLen)

\* std::ostringstream ss(std::stringstream::binary)
ostringstream == [buf |-> <<>>, good |-> TRUE]

\* ss.write(data, length): a stream that is not good takes nothing; a good
\* one takes the first accepted bytes and fails when that is not all of them
ostream_write(s, data, accepted) ==
    IF ~s.good THEN s
    ELSE [buf |-> s.buf \o Prefix(data, accepted), good |-> accepted = Len(data)]

\* a callback that does not look at the stream
write_status_unchecked(s) == "CAIRO_STATUS_SUCCESS"

\* return ss ? CAIRO_STATUS_SUCCESS : CAIRO_STATUS_WRITE_ERROR
write_status(s) ==
    IF s.good THEN "CAIRO_STATUS_SUCCESS" ELSE "CAIRO_STATUS_WRITE_ERROR"

\* cairo_vector_renderer::write(closure, data, length)
cairo_vector_renderer_write(s, data, accepted) ==
    LET after == ostream_write(s, data, accepted)
    IN  [ss |-> after, status |-> write_status(after)]

(***************************************************************************)
(* src/mapnik_print.cpp: main                                              *)
(*                                                                         *)
(* An option's occurrences on the command line are a sequence: <<>> when   *)
(* the option is absent.  The options verbose, duration and iterations are *)
(* declared and read by no statement of main; they are left out.           *)
(***************************************************************************)
log_levels == {"debug", "warn", "error", "none"}

CommandLines ==
    [MAPNIK_LOG : BOOLEAN,                 \* the build defines MAPNIK_LOG
     unknown    : BOOLEAN,                 \* an option main does not declare
     help       : {<<>>, <<"--help">>},
     log        : {<<>>, <<"debug">>, <<"verbose">>},
     fonts      : {<<>>, <<"/usr/share/fonts">>},
     plugins    : {<<>>, <<"/usr/lib/mapnik/input">>},
     output_dir : {<<>>, <<"out">>},
     scale      : {<<>>, <<"2.5">>},
     envelope   : {<<>>, <<"0,0,10,20">>, <<"here">>},
     size       : {<<>>, <<"800,600">>},
     renderers  : {{}, {"agg", "cairo-pdf"}},
     styles     : {<<>>, <<"osm.xml">>}]

\* the value of an option that has a default_value
ValueOr(given, default) == IF given = <<>> THEN default ELSE given[1]

\* po::value<double>: the text of the model's scale factors as doubles
parse_double(text) == IF text = "2.5" THEN Rat(5, 2) ELSE Num(1)

\* po::store throws when the command line names an option that desc does
\* not declare; log is declared only under MAPNIK_LOG
parse_throws(a) == a.unknown \/ (~a.MAPNIK_LOG /\ a.log # <<>>)

\* po::store and po::notify: the variables_map of a command line;
\* severity is what mapnik::logger::get_severity() names
parse_command_line(a, severity) ==
    [help       |-> Len(a.help),
     output_dir |-> ValueOr(a.output_dir, "./"),
     styles     |-> a.styles,
     fonts      |-> ValueOr(a.fonts, "fonts"),
     plugins    |-> ValueOr(a.plugins, "plugins/input"),
     log        |-> ValueOr(a.log, severity),
     scale      |-> IF a.scale = <<>> THEN <<Num(1)>>
                    ELSE [i \in 1..Len(a.scale) |-> parse_double(a.scale[i])],
     envelope   |-> a.envelope,
     size       |-> a.size,
     renderers  |-> a.renderers]

\* a main that does not look at the help option before it goes on
help_ignored(v) == FALSE

\* if (vm.count("help"))
help_requested(v) == v.help > 0

\* log_levels.find(log_level) == log_levels.end()
log_level_unknown(v) == v.log \notin log_levels

\* box2d::from_string on the envelopes of the model: a box that does not
\* parse is left as default-constructed, and main pushes it all the same
envelope_from_string(text) ==
    IF text = "0,0,10,20" THEN box2d(Num(0), Num(0), Num(10), Num(20))
    ELSE box2d_default

\* config defaults;
config == [scales |-> <<>>, envelopes |-> <<>>, sizes |-> <<>>]

Returned(status) == [status |-> status]

\* an exception that leaves main: std::terminate, which aborts the process
Aborted == [signal |-> "SIGABRT"]

(***************************************************************************)
(* Initial states                                                          *)
(***************************************************************************)
Units == {"scale_merc", "command", "render", "save", "cairo", "main"}

\* the contents a file of the model can start with
InitialFiles == [Paths -> {NoFile, File(<<"b", "a">>)}]

Init ==
    /\ unit \in Units
    /\ merc = None /\ mercPrev = None
    /\ cmd = None /\ cmdPrev = None
    /\ IF unit = "render"
       THEN rend \in {renderer(b, m) : b \in Backends, m \in Maps}
       ELSE rend = None
    /\ handed = None
    /\ IF unit = "save"
       THEN files \in InitialFiles /\ openable \in SUBSET Paths
       ELSE files = [p \in Paths |-> NoFile] /\ openable = {}
    /\ saved = None
    /\ ss = None /\ calls = <<>> /\ image = <<>>
    /\ cairoPc = IF unit = "cairo" THEN "start" ELSE "idle"
    /\ IF unit = "main"
       THEN argv \in CommandLines /\ pc = "parse"
       ELSE argv = None /\ pc = "idle"
    /\ vm = None
    /\ lib = [fonts |-> <<>>, datasources |-> <<>>, severity |-> "error"]
    /\ output_dir = None
    /\ defaults = None
    /\ renderers = {}
    /\ run_styles = <<>>
    /\ out = [clog |-> <<>>, cerr |-> <<>>]
    /\ exit = None
    /\ trace = <<>>

(***************************************************************************)
(* Actions of lib/renderer.hpp                                             *)
(***************************************************************************)
\* a call scale_merc(zoom)
ScaleMercCall ==
    /\ unit = "scale_merc"
    /\ \E zoom \in 0..MaxZoom, ub \in ShiftOutcomes :
          /\ merc' = [zoom |-> zoom, divisor |-> ShiftLeft1(zoom, ub),
                      value |-> scale_merc(zoom, ub)]
          /\ mercPrev' = merc
    /\ UNCHANGED <<unit, cmdVars, rendVars, saveVars, cairoVars, mainVars>>

\* a construction command(map_center, scale_denom, size, zoom, dpi)
ConstructCommand ==
    /\ unit = "command"
    /\ \E c \in Commands :
          /\ cmd' = c
          /\ cmdPrev' = cmd
    /\ UNCHANGED <<unit, mercVars, rendVars, saveVars, cairoVars, mainVars>>

\* a call renderer<Renderer>::render(cmd)
Render ==
    /\ unit = "render"
    /\ \E c \in Commands : handed' = renderer_render(rend, c)
    /\ UNCHANGED <<unit, rend, mercVars, cmdVars, saveVars, cairoVars, mainVars>>

\* a call vector_renderer_base::save(image, path)
Save ==
    /\ unit = "save"
    /\ \E img \in Images, path \in Paths, written \in 0..MaxImageLen :
          /\ written <= Len(img)
          /\ LET r == vector_renderer_base_save(files, img, path,
                                                path \in openable, written)
             IN  /\ files' = r.files
                 /\ saved' = [image |-> img, path |-> path, before |-> files,
                              opens |-> r.opens, thrown |-> r.thrown,
                              bytes |-> r.bytes]
    /\ UNCHANGED <<unit, openable, mercVars, cmdVars, rendVars, cairoVars, mainVars>>

\* cairo_vector_renderer::render, up to the creation of the surface
CairoRenderStart ==
    /\ unit = "cairo"
    /\ cairoPc = "start"
    /\ ss' = ostringstream
    /\ cairoPc' = "rendering"
    /\ UNCHANGED <<unit, calls, image, mercVars, cmdVars, rendVars, saveVars, mainVars>>

\* a write callback of the surface, from ren.apply() or cairo_surface_finish
CairoWrite ==
    /\ unit = "cairo"
    /\ cairoPc = "rendering"
    /\ Len(calls) < MaxWrites
    /\ \E data \in Chunks, accepted \in 0..MaxChunkLen :
          /\ accepted <= Len(data)
          /\ LET r == cairo_vector_renderer_write(ss, data, accepted)
             IN  /\ ss' = r.ss
                 /\ calls' = Append(calls, [data |-> data, status |-> r.status,
                                            good |-> r.ss.good])
    /\ UNCHANGED <<unit, cairoPc, image, mercVars, cmdVars, rendVars, saveVars, mainVars>>

\* cairo_vector_renderer::render: return ss.str()
CairoRenderReturn ==
    /\ unit = "cairo"
    /\ cairoPc = "rendering"
    /\ image' = ss.buf
    /\ cairoPc' = "returned"
    /\ UNCHANGED <<unit, ss, calls, mercVars, cmdVars, rendVars, saveVars, mainVars>>

(***************************************************************************)
(* Actions of main, one for each statement                                 *)
(***************************************************************************)
libUnits == <<unit, mercVars, cmdVars, rendVars, saveVars, cairoVars>>

\* lines 25-68: the options, po::store, po::notify
MainParse ==
    /\ pc = "parse"
    /\ IF parse_throws(argv)
       THEN /\ pc' = "exited"
            /\ exit' = Aborted
            /\ vm' = vm
       ELSE /\ pc' = "help"
            /\ vm' = parse_command_line(argv, lib.severity)
            /\ exit' = exit
    /\ UNCHANGED <<libUnits, argv, lib, output_dir, defaults, renderers,
                   run_styles, out, trace>>

\* lines 70-74
MainHelp ==
    /\ pc = "help"
    /\ IF help_requested(vm)
       THEN /\ out' = [out EXCEPT !.clog = Append(@, "usage")]
            /\ exit' = Returned(1)
            /\ pc' = "exited"
       ELSE /\ pc' = IF argv.MAPNIK_LOG THEN "log" ELSE "fonts"
            /\ UNCHANGED <<out, exit>>
    /\ UNCHANGED <<libUnits, argv, vm, lib, output_dir, defaults, renderers,
                   run_styles, trace>>

\* lines 76-88, under MAPNIK_LOG
MainLogLevel ==
    /\ pc = "log"
    /\ IF log_level_unknown(vm)
       THEN /\ out' = [out EXCEPT !.cerr = Append(@, "Error: Unknown log level: " \o vm.log)]
            /\ exit' = Returned(1)
            /\ pc' = "exited"
            /\ UNCHANGED <<lib, trace>>
       ELSE /\ lib' = [lib EXCEPT !.severity = vm.log]
            /\ trace' = Append(trace, "set_severity")
            /\ pc' = "fonts"
            /\ UNCHANGED <<out, exit>>
    /\ UNCHANGED <<libUnits, argv, vm, output_dir, defaults, renderers, run_styles>>

\* line 90
MainRegisterFonts ==
    /\ pc = "fonts"
    /\ lib' = [lib EXCEPT !.fonts = Append(@, vm.fonts)]
    /\ trace' = Append(trace, "register_fonts")
    /\ pc' = "plugins"
    /\ UNCHANGED <<libUnits, argv, vm, output_dir, defaults, renderers,
                   run_styles, out, exit>>

\* line 91
MainRegisterDatasources ==
    /\ pc = "plugins"
    /\ lib' = [lib EXCEPT !.datasources = Append(@, vm.plugins)]
    /\ trace' = Append(trace, "register_datasources")
    /\ pc' = "output_dir"
    /\ UNCHANGED <<libUnits, argv, vm, output_dir, defaults, renderers,
                   run_styles, out, exit>>

\* line 93
MainOutputDir ==
    /\ pc = "output_dir"
    /\ output_dir' = [path |-> vm.output_dir]
    /\ trace' = Append(trace, "output_dir")
    /\ pc' = "defaults"
    /\ UNCHANGED <<libUnits, argv, vm, lib, defaults, renderers, run_styles,
                   out, exit>>

\* lines 95-96
MainDefaults ==
    /\ pc = "defaults"
    /\ defaults' = [config EXCEPT !.scales = vm.scale]
    /\ trace' = Append(trace, "defaults")
    /\ pc' = "envelope"
    /\ UNCHANGED <<libUnits, argv, vm, lib, output_dir, renderers, run_styles,
                   out, exit>>

\* lines 98-103
MainEnvelope ==
    /\ pc = "envelope"
    /\ defaults' =
          IF Len(vm.envelope) > 0
          THEN [defaults EXCEPT
                   !.envelopes = Append(@, envelope_from_string(vm.envelope[1]))]
          ELSE defaults
    /\ pc' = "end"
    /\ UNCHANGED <<libUnits, argv, vm, lib, output_dir, renderers, run_styles,
                   out, exit, trace>>

\* line 143: lines 105-142 are a comment, and main runs off its end
MainEnd ==
    /\ pc = "end"
    /\ exit' = Returned(0)
    /\ pc' = "exited"
    /\ UNCHANGED <<libUnits, argv, vm, lib, output_dir, defaults, renderers,
                   run_styles, out, trace>>

Next ==
    \/ ScaleMercCall
    \/ ConstructCommand
    \/ Render
    \/ Save
    \/ CairoRenderStart
    \/ CairoWrite
    \/ CairoRenderReturn
    \/ MainParse
    \/ MainHelp
    \/ MainLogLevel
    \/ MainRegisterFonts
    \/ MainRegisterDatasources
    \/ MainOutputDir
    \/ MainDefaults
    \/ MainEnvelope
    \/ MainEnd

Spec == Init /\ [][Next]_vars

(***************************************************************************)
(* Properties                                                              *)
(***************************************************************************)
OpenFails(path) == path \notin openable

\* C7: a failed save is neither retried nor recovered: save opens the file
\* at path exactly once, and when the open fails it throws
\* std::runtime_error("Cannot open file for writing: <path>"), writes no
\* byte and leaves every file, an existing file at path included, as it was;
\* it throws in no other case.
C7_FailedSaveThrowsOnce ==
    (unit = "save" /\ saved # None) =>
        /\ saved.opens = 1
        /\ OpenFails(saved.path) =>
              /\ saved.thrown.type = "std::runtime_error"
              /\ saved.thrown.what = "Cannot open file for writing: " \o saved.path
              /\ saved.bytes = 0
              /\ files = saved.before
        /\ ~OpenFails(saved.path) => saved.thrown = None

\* C7's case: a save whose open failed, at a path that names a file
C7_Witness ==
    /\ unit = "save" /\ saved # None
    /\ OpenFails(saved.path)
    /\ saved.before[saved.path].exists
    /\ Len(saved.image) > 0

(***************************************************************************)
(* cairo_vector_renderer: the write callbacks of one render                *)
(***************************************************************************)
Succeeded(i) == calls[i].status = "CAIRO_STATUS_SUCCESS"

Failed(i) == calls[i].status = "CAIRO_STATUS_WRITE_ERROR"

RECURSIVE ConcatData(_, _)
\* the chunks of the first k callbacks, concatenated in call order
ConcatData(k, onlySucceeded) ==
    IF k = 0 THEN <<>>
    ELSE ConcatData(k - 1, onlySucceeded)
            \o (IF onlySucceeded /\ ~Succeeded(k) THEN <<>> ELSE calls[k].data)

FailedCalls == {i \in 1..Len(calls) : Failed(i)}

FirstFailed == CHOOSE i \in FailedCalls : \A j \in FailedCalls : i <= j

StatusTellsStreamState ==
    \A i \in 1..Len(calls) :
        /\ calls[i].status \in {"CAIRO_STATUS_SUCCESS", "CAIRO_STATUS_WRITE_ERROR"}
        /\ Succeeded(i) <=> calls[i].good

WriteErrorIsSticky ==
    \A i, j \in 1..Len(calls) : (i < j /\ Failed(i)) => Failed(j)

\* C8 as stated: the string render returns is the concatenation of the
\* chunks of all the write callbacks in call order; a callback returns
\* CAIRO_STATUS_SUCCESS iff the stream is good after its write; after a
\* CAIRO_STATUS_WRITE_ERROR every later callback returns it too.
C8_ReturnsAllChunks ==
    unit = "cairo" =>
        /\ StatusTellsStreamState
        /\ WriteErrorIsSticky
        /\ cairoPc = "returned" => image = ConcatData(Len(calls), FALSE)

\* C8, amended: the string render returns is the concatenation, in call
\* order, of the chunks of the callbacks that returned CAIRO_STATUS_SUCCESS,
\* followed, when a callback failed, by a proper prefix (it may be empty) of
\* the chunk of the first callback that returned CAIRO_STATUS_WRITE_ERROR;
\* a callback returns CAIRO_STATUS_SUCCESS iff the stream is good after its
\* write; after a CAIRO_STATUS_WRITE_ERROR every later callback returns it
\* too and appends nothing.
C8_ReturnsAcceptedChunks ==
    unit = "cairo" =>
        /\ StatusTellsStreamState
        /\ WriteErrorIsSticky
        /\ cairoPc = "returned" =>
              IF FailedCalls = {}
              THEN image = ConcatData(Len(calls), FALSE)
              ELSE \E k \in 0..MaxChunkLen :
                      /\ k < Len(calls[FirstFailed].data)
                      /\ image = ConcatData(Len(calls), TRUE)
                                    \o Prefix(calls[FirstFailed].data, k)

\* C8's case: render returned after a callback that wrote its chunk and a
\* later one that failed
C8_Witness ==
    /\ unit = "cairo" /\ cairoPc = "returned"
    /\ Len(calls) >= 2
    /\ Succeeded(1) /\ Len(calls[1].data) > 0
    /\ Failed(2) /\ Len(calls[2].data) > 0

(***************************************************************************)
(* main                                                                    *)
(***************************************************************************)
HelpGiven == argv.help # <<>>

UnknownLogGiven ==
    argv.MAPNIK_LOG /\ argv.log # <<>> /\ argv.log[1] \notin log_levels

MainReturned == exit # None /\ exit # Aborted

\* effect a of trace happens, and only after effect b
OnlyAfter(a, b) ==
    \A i \in 1..Len(trace) :
        trace[i] = a => \E j \in 1..(i - 1) : trace[j] = b

C6_FlagsForwarded ==
    (unit = "main" /\ exit = Returned(0)) =>
        /\ argv.fonts # <<>> => lib.fonts = argv.fonts
        /\ argv.plugins # <<>> => lib.datasources = argv.plugins
        /\ argv.scale # <<>> =>
              defaults.scales = [i \in 1..Len(argv.scale) |-> parse_double(argv.scale[i])]
        /\ argv.envelope # <<>> =>
              defaults.envelopes = <<envelope_from_string(argv.envelope[1])>>
        /\ argv.size # <<>> => Len(defaults.sizes) = Len(argv.size)
        /\ {r.ren.name : r \in renderers} = argv.renderers
        /\ argv.output_dir # <<>> =>
              \A r \in renderers : r.output_dir = argv.output_dir[1]
        /\ run_styles = argv.styles

(***************************************************************************)
(* scale_merc and command                                                  *)
(***************************************************************************)
\* C9: for every unsigned zoom the divisor 1u << zoom is 2^zoom, never 0 and
\* never wrapped, scale_merc(zoom) is strictly positive (and finite: nothing
\* was divided by zero), and scale_merc(zoom + 1) is half of scale_merc(zoom).
C9_ScaleMercEveryZoom ==
    (unit = "scale_merc" /\ merc # None) =>
        /\ ~merc.divisor.zero
        /\ merc.divisor.exp = merc.zoom
        /\ Positive(merc.value) /\ Finite(merc.value)
        /\ (mercPrev # None /\ merc.zoom = mercPrev.zoom + 1) =>
              merc.value = Half(mercPrev.value)

Constructed == unit = "command" /\ cmd # None

\* the projection factor at the latitude of a point
CosLatitude(point) == CosDeg(Latitude(point.y))

\* C4: after construction the extent is centered exactly on map_center, its
\* width and height are the physical width and height times scale_denom
\* times k, with k the cosine of the latitude of map_center, and the stored
\* size is the physical size in points (meters / 0.0254 * 72).
C4_ExtentFromCenterAndScale ==
    Constructed =>
        LET k == CosLatitude(cmd.arg.map_center)
        IN  /\ box_center(cmd.extent) = cmd.arg.map_center
            /\ box_width(cmd.extent) =
                  Mul(Mul(cmd.arg.size.width, cmd.arg.scale_denom), k)
            /\ box_height(cmd.extent) =
                  Mul(Mul(cmd.arg.size.height, cmd.arg.scale_denom), k)
            /\ cmd.size.width = Mul(Div(cmd.arg.size.width, Rat(254, 10000)), Num(72))
            /\ cmd.size.height = Mul(Div(cmd.arg.size.height, Rat(254, 10000)), Num(72))

\* the scale factor as the constructor's expression states it, scale being
\* the constructor's local, scale_merc(zoom)
ScaleFactorEquation(c) ==
    /\ c.arg.zoom < UnsignedBits => c.scale = scale_merc(c.arg.zoom, "masked")
    /\ c.scale_factor =
          Div(scale_denominator(c.scale),
              scale_denominator(Div(box_width(c.extent), c.arg.size.width)))

\* two constructions with the same center, scale denominator and dpi (and
\* the same projection factor)
SameButZoomAndSize ==
    /\ Constructed /\ cmdPrev # None
    /\ cmd.arg.map_center = cmdPrev.arg.map_center
    /\ cmd.arg.scale_denom = cmdPrev.arg.scale_denom
    /\ cmd.arg.dpi = cmdPrev.arg.dpi
    /\ cmd.projection_scale_factor = cmdPrev.projection_scale_factor

\* C3 as stated: scale_factor is the scale denominator of scale_merc(zoom)
\* over the scale denominator of the map's resolution (extent width over map
\* width), and with center, scale denominator and dpi fixed it varies with
\* the zoom and with the physical map size.
C3_ScaleFactorVariesWithSize ==
    /\ Constructed => ScaleFactorEquation(cmd)
    /\ (SameButZoomAndSize
          /\ (cmd.arg.zoom # cmdPrev.arg.zoom \/ cmd.arg.size # cmdPrev.arg.size))
       => cmd.scale_factor # cmdPrev.scale_factor

\* C3, amended: scale_factor is the scale denominator of scale_merc(zoom)
\* over the scale denominator of extent width / width of the size argument,
\* which is scale_merc(zoom) / (scale_denom * k) for the projection factor k
\* of the construction: the physical size cancels.  With center, scale
\* denominator, dpi and k fixed, the scale factor is the same for every
\* physical size and differs between two zooms below the width of unsigned.
C3_ScaleFactorFromZoomAndScale ==
    /\ Constructed =>
          /\ ScaleFactorEquation(cmd)
          /\ cmd.scale_factor =
                Div(cmd.scale,
                    Mul(cmd.arg.scale_denom, cmd.projection_scale_factor))
    /\ SameButZoomAndSize =>
          /\ cmd.arg.zoom = cmdPrev.arg.zoom =>
                cmd.scale_factor = cmdPrev.scale_factor
          /\ (cmd.arg.zoom # cmdPrev.arg.zoom
                /\ cmd.arg.zoom < UnsignedBits /\ cmdPrev.arg.zoom < UnsignedBits)
             => cmd.scale_factor # cmdPrev.scale_factor

\* C3's case: two constructions that differ in the physical size alone
C3_Witness ==
    /\ SameButZoomAndSize
    /\ cmd.arg.zoom = cmdPrev.arg.zoom
    /\ cmd.arg.size.width # cmdPrev.arg.size.width
    /\ cmd.geografic_center = cmdPrev.geografic_center

(***************************************************************************)
(* renderer<Renderer>::render                                              *)
(***************************************************************************)
\* C5: render(cmd) feeds the command's extent to the backend: the map handed
\* to Renderer::render covers cmd.extent and is rendered at cmd.scale_factor.
C5_RenderCoversCommandExtent ==
    (unit = "render" /\ handed # None) =>
        /\ handed.backend = rend.ren.name
        /\ handed.scale_factor = handed.cmd.scale_factor
        /\ handed.map.extent = handed.cmd.extent

====
